---- MODULE Spec2Model ----
(***************************************************************************)
(* Model of the MCP server comparator: the protocol client (MCPClient in   *)
(* src/test_id.ts, the legacy variant, and src/test_id_final.ts, the       *)
(* current variant), the canonicalizer and fingerprint (generateServerID   *)
(* in src/hash.ts) and the comparator (compareServers,                     *)
(* compareServerConfigs).                                                  *)
(***************************************************************************)
EXTENDS Integers, Sequences, FiniteSets, TLC

(***************************************************************************)
(* JSON values.  A value parsed from a response body, or built by the      *)
(* code, is a tagged record; an object keeps its keys in insertion order,  *)
(* as a JavaScript object does.                                            *)
(***************************************************************************)
JUndef == [t |-> "undefined"]

JNull == [t |-> "null"]

JStr(s) == [t |-> "string", s |-> s]

JBool(b) == [t |-> "boolean", b |-> b]

JArr(xs) == [t |-> "array", xs |-> xs]

JObj(kv) == [t |-> "object", kv |-> kv]

\* JavaScript truthiness: undefined, null, '' and false are falsy.
Truthy(v) ==
  /\ v.t # "undefined"
  /\ v.t # "null"
  /\ (v.t = "string" => v.s # "")
  /\ (v.t = "boolean" => v.b)

\* a || b
OrElse(a, b) == IF Truthy(a) THEN a ELSE b

\* o.k : the property k of o, undefined when o has no such key.
Get(o, k) ==
  IF o.t = "object" /\ \E i \in 1..Len(o.kv) : o.kv[i][1] = k
  THEN o.kv[CHOOSE i \in 1..Len(o.kv) : o.kv[i][1] = k][2]
  ELSE JUndef

\* xs.length
Length(a) == IF a.t = "array" THEN Len(a.xs) ELSE 0

\* JSON.stringify: keys in insertion order, a property whose value is
\* undefined is left out, an undefined array element is written null.
RECURSIVE JSONStringify(_)
RECURSIVE StringifyMembers(_, _)
RECURSIVE StringifyElements(_, _)
JSONStringify(v) ==
  CASE v.t = "string" -> "\"" \o v.s \o "\""
    [] v.t = "boolean" -> IF v.b THEN "true" ELSE "false"
    [] v.t = "null" -> "null"
    [] v.t = "array" -> "[" \o StringifyElements(v.xs, 1) \o "]"
    [] v.t = "object" -> "{" \o StringifyMembers(v.kv, TRUE) \o "}"
    [] OTHER -> "undefined"

StringifyMembers(kv, first) ==
  IF kv = <<>> THEN ""
  ELSE IF kv[1][2].t = "undefined" THEN StringifyMembers(Tail(kv), first)
  ELSE (IF first THEN "" ELSE ",") \o "\"" \o kv[1][1] \o "\":"
         \o JSONStringify(kv[1][2]) \o StringifyMembers(Tail(kv), FALSE)

StringifyElements(xs, i) ==
  IF i > Len(xs) THEN ""
  ELSE (IF i = 1 THEN "" ELSE ",")
         \o (IF xs[i].t = "undefined" THEN "null" ELSE JSONStringify(xs[i]))
         \o StringifyElements(xs, i + 1)

(***************************************************************************)
(* String.prototype.localeCompare on the names the model uses: the         *)
(* collation rank of each name; two names compare 0 only when equal.       *)
(***************************************************************************)
CollationRank(s) ==
  CASE s = "" -> 0
    [] s = "add" -> 1
    [] s = "math-problem" -> 2
    [] s = "Math Operations Guide" -> 3
    [] s = "subtract" -> 4
    [] s = "workspace" -> 5

localeCompare(a, b) ==
  IF CollationRank(a) < CollationRank(b) THEN -1
  ELSE IF CollationRank(a) > CollationRank(b) THEN 1 ELSE 0

\* Array.prototype.sort with a comparator that orders two entries by
\* localeCompare of their keys; ks[i] is the key of xs[i].  The sort is
\* stable: entries whose keys compare 0 keep their relative order.
SortByKeys(xs, ks) ==
  LET n == Len(xs)
      Before(i, j) == \/ localeCompare(ks[i], ks[j]) < 0
                      \/ (localeCompare(ks[i], ks[j]) = 0 /\ i < j)
      Pos(i) == 1 + Cardinality({j \in 1..n : Before(j, i)})
  IN [p \in 1..n |-> xs[CHOOSE i \in 1..n : Pos(i) = p]]

(***************************************************************************)
(* src/hash.ts                                                             *)
(***************************************************************************)
\* Mutant of ProjectTool: the description is not kept.
ProjectToolNameOnly(tool) ==
  JObj(<< <<"name", Get(tool, "name")>>,
          <<"inputSchema", Get(tool, "inputSchema")>> >>)

\* Mutant of ProjectTool: the tool is passed on with all its fields.
ProjectToolWhole(tool) == tool

\* Mutant of ProjectTool: of the inputSchema only its presence is kept, so
\* that its key order no longer shows.
ProjectToolSchemaless(tool) ==
  JObj(<< <<"name", Get(tool, "name")>>,
          <<"description", Get(tool, "description")>>,
          <<"inputSchema", JBool(Truthy(Get(tool, "inputSchema")))>> >>)

\* tool => ({name, description, inputSchema})
ProjectTool(tool) ==
  JObj(<< <<"name", Get(tool, "name")>>,
          <<"description", Get(tool, "description")>>,
          <<"inputSchema", Get(tool, "inputSchema")>> >>)

\* resource => ({name, description, mimeType, uriTemplate})
ProjectResource(resource) ==
  JObj(<< <<"name", Get(resource, "name")>>,
          <<"description", Get(resource, "description")>>,
          <<"mimeType", Get(resource, "mimeType")>>,
          <<"uriTemplate", Get(resource, "uriTemplate")>> >>)

\* prompt => ({name, description, arguments})
ProjectPrompt(prompt) ==
  JObj(<< <<"name", Get(prompt, "name")>>,
          <<"description", Get(prompt, "description")>>,
          <<"arguments", Get(prompt, "arguments")>> >>)

\* .sort((a, b) => a.name.localeCompare(b.name)) on projected entries
\* (every entry of the model's lists carries a string name).
SortByName(xs) == SortByKeys(xs, [i \in 1..Len(xs) |-> Get(xs[i], "name").s])

\* The object that is serialized and hashed.
HashableData(server) ==
  JObj(<< <<"name", server.name>>,
          <<"version", server.version>>,
          <<"tools", JArr(SortByName(
               [i \in 1..Length(server.tools) |-> ProjectTool(server.tools.xs[i])]))>>,
          <<"resources", JArr(SortByName(
               [i \in 1..Length(server.resources) |-> ProjectResource(server.resources.xs[i])]))>>,
          <<"prompts", JArr(SortByName(
               [i \in 1..Length(server.prompts) |-> ProjectPrompt(server.prompts.xs[i])]))>>,
          <<"capabilities", server.capabilities>> >>)

\* crypto.createHash('sha256').update(s).digest('hex'), taken to be
\* injective: the digest is identified with the string that was hashed.
Sha256Hex(s) == "sha256(" \o s \o ")"

generateServerID(server) == Sha256Hex(JSONStringify(HashableData(server)))

(***************************************************************************)
(* The protocol client: MCPClient of src/test_id.ts (variant "legacy":     *)
(* the session token is taken from the streaming event id) and of          *)
(* src/test_id_final.ts (variant "final": the token is taken from the      *)
(* mcp-session-id response header of initialize, and the listing methods   *)
(* are guarded by the initialized flag).                                   *)
(***************************************************************************)
VARIABLES
  variant,      \* "legacy" | "final": which source file the clients run
  mode,         \* "compare": compareServers; "solo": one getMCPServerInfo;
                \* "api": public methods of one client called in any order;
                \* "hash": the comparator applied to given descriptors
  requestId,    \* [client -> Nat]       MCPClient.requestId
  sessionId,    \* [client -> JSON]      MCPClient.sessionId (null or string)
  initialized,  \* [client -> BOOLEAN]   MCPClient.initialized (final only)
  pc,           \* [client -> position]  the call the client is awaiting
  net,          \* [client -> record]    the sendRequest in flight
  sent,         \* [client -> Seq]       history: the requests sent so far
  serverInfo,   \* [client -> record]    the descriptor of getServerInfo
  lastRet,      \* [client -> record]    outcome of the last completed call
  initOk,       \* [client -> BOOLEAN]   history: an initialize call returned
                \*                       a response without an error object
  served,       \* [client -> record]    history of a getServerInfo run: the
                \*                       identity the descriptor held when
                \*                       initialize completed, the list the
                \*                       server returned in each listing call
                \*                       that succeeded, the calls that failed
  cmp,          \* the state of compareServers
  edits         \* history ("hash" mode): how descriptor 2 was derived from
                \* descriptor 1

vars == <<variant, mode, requestId, sessionId, initialized, pc, net, sent,
          serverInfo, lastRet, initOk, served, cmp, edits>>

Clients == {1, 2}

\* The clients that run in each mode.
Active == IF mode = "compare" THEN Clients ELSE IF mode = "hash" THEN {} ELSE {1}

ListMethods == {"tools/list", "resources/list", "prompts/list", "roots/list"}

Methods == {"initialize", "ping"} \cup ListMethods

\* compareLocalServers: the two endpoints.
Endpoint(c) == IF c = 1 THEN JStr("http://localhost:8080/mcp")
               ELSE JStr("http://localhost:8081/mcp")

\* The descriptor getServerInfo starts from.
EmptyServerInfo(c) ==
  [name |-> JStr(""), version |-> JStr(""), protocolVersion |-> JStr(""),
   capabilities |-> JObj(<<>>), tools |-> JArr(<<>>), resources |-> JArr(<<>>),
   prompts |-> JArr(<<>>), roots |-> JArr(<<>>), endpoint |-> Endpoint(c),
   error |-> JUndef]

NoCall == [stage |-> "none", method |-> "", timer |-> FALSE]

\* lastRet is the outcome of the last public method a caller called directly
\* ("api" mode); getServerInfo consumes the outcomes of its own calls.
\* The outcome of a call: it returned data, or it threw an Error(message).
Returned(data) == [thrown |-> FALSE, data |-> data, message |-> ""]

Threw(message) == [thrown |-> TRUE, data |-> JUndef, message |-> message]

NoOutcome == [thrown |-> FALSE, data |-> JUndef, message |-> ""]

\* sendRequest: the headers of the request.  The legacy client attaches the
\* token to every request once it holds one; the final client does not
\* attach it to initialize.
HeadersFinal(sid, method) ==
  JObj(<< <<"Content-Type", JStr("application/json")>>,
          <<"Accept", JStr("application/json, text/event-stream")>> >>
       \o (IF Truthy(sid) /\ method # "initialize"
           THEN << <<"mcp-session-id", sid>> >> ELSE <<>>))

HeadersLegacy(sid, method) ==
  JObj(<< <<"Content-Type", JStr("application/json")>>,
          <<"Accept", JStr("application/json, text/event-stream")>> >>
       \o (IF Truthy(sid) THEN << <<"X-Session-ID", sid>> >> ELSE <<>>))

Headers(sid, method) ==
  IF variant = "final" THEN HeadersFinal(sid, method) ELSE HeadersLegacy(sid, method)

\* sendRequest: the request envelope, id: this.requestId++.
Request(id, method, sid) ==
  [jsonrpc |-> "2.0", id |-> id, method |-> method, headers |-> Headers(sid, method)]

\* Mutant of NextRequestId: the counter is not incremented.
NextRequestIdStuck(id) == id

\* this.requestId++ : the counter after a request was built.
NextRequestId(id) == id + 1

\* listTools, listResources, listPrompts, listRoots: the final client throws
\* before sending when it is not initialized; the legacy client has no guard.
CanSend(method, ini) ==
  \/ variant = "legacy"
  \/ method \notin ListMethods
  \/ ini

(***************************************************************************)
(* Response bodies.  A body is a sequence of lines: the event marker line  *)
(* 'event: message', an 'id: <event id>' line (the event id as its         *)
(* segments between '_' separators), a 'data: <text>' line, or any other   *)
(* line of text.  A text is either the JSON text of a value or text that   *)
(* JSON.parse rejects.                                                     *)
(***************************************************************************)
JSONText(v) == [valid |-> TRUE, json |-> v]

Garbage == [valid |-> FALSE, json |-> JUndef]

EventLine == [l |-> "event", id |-> <<>>, text |-> Garbage]

IdLine(segs) == [l |-> "id", id |-> segs, text |-> Garbage]

DataLine(text) == [l |-> "data", id |-> <<>>, text |-> text]

TextLine(text) == [l |-> "text", id |-> <<>>, text |-> text]

\* lines.find(line => line.startsWith(prefix)): the index of the first such
\* line, 0 when there is none.
FindLine(body, kind) ==
  IF \E i \in 1..Len(body) : body[i].l = kind
  THEN CHOOSE i \in 1..Len(body) :
         body[i].l = kind /\ \A j \in 1..(i - 1) : body[j].l # kind
  ELSE 0

\* JSON.parse(text)
JSONParse(text) ==
  IF text.valid THEN Returned(text.json) ELSE Threw("Unexpected token in JSON")

\* JSON.parse(responseText): the whole body is one JSON text only when it is
\* a single line of JSON.
ParseWhole(body) ==
  IF Len(body) = 1 /\ body[1].l = "text" THEN JSONParse(body[1].text)
  ELSE Threw("Unexpected token in JSON")

\* Mutant of ParseBody: the body is always parsed as one JSON text.
ParseBodyBareOnly(body) == ParseWhole(body)

\* sendRequest from 'const responseText = await response.text()' on: the
\* value returned or the error thrown.
ParseBody(body) ==
  IF Len(body) > 0 /\ body[1].l = "event" /\ FindLine(body, "data") # 0
  THEN JSONParse(body[FindLine(body, "data")].text)
  ELSE ParseWhole(body)

\* eventId.split('_')[0]
FirstSegment(segs) == JStr(segs[1])

\* The legacy client: the session token after a body was read.
SessionFromBody(sid, body) ==
  IF /\ Len(body) > 0 /\ body[1].l = "event"
     /\ FindLine(body, "id") # 0
     /\ ~Truthy(sid)
  THEN FirstSegment(body[FindLine(body, "id")].id)
  ELSE sid

\* Mutant of SessionFromHeader: the header of every initialize response is
\* taken, also when a token is held.
SessionFromHeaderAlways(sid, method, header) ==
  IF method = "initialize" THEN header ELSE sid

\* The final client: the session token after the response headers of a
\* successful HTTP exchange were read; header is
\* response.headers.get('mcp-session-id'), null when there is none.
SessionFromHeader(sid, method, header) ==
  IF method = "initialize" /\ ~Truthy(sid) THEN header ELSE sid

\* response.ok
StatusOk(status) == status >= 200 /\ status <= 299

(***************************************************************************)
(* getServerInfo: what it does with the outcome of each call.              *)
(***************************************************************************)
CallOrder == <<"initialize", "tools/list", "resources/list", "prompts/list",
               "roots/list", "ping">>

CallIndex(method) == CHOOSE i \in 1..Len(CallOrder) : CallOrder[i] = method

\* The field of the descriptor and of the result that a listing call fills.
ListField(method) ==
  CASE method = "tools/list" -> "tools"
    [] method = "resources/list" -> "resources"
    [] method = "prompts/list" -> "prompts"
    [] method = "roots/list" -> "roots"

\* Reading a property of null or undefined throws a TypeError.
PropertyThrows(v) == v.t \in {"null", "undefined"}

\* `${value}` in a template literal.
Interpolate(v) == IF v.t = "string" THEN v.s ELSE JSONStringify(v)

\* Mutant of InitializeFailed: the error object of the response is not looked at.
InitializeFailedThrownOnly(out) ==
  \/ out.thrown
  \/ PropertyThrows(out.data)

\* The initialize step fails: the call threw, or the response carries an
\* error object (reading .error of a null response throws as well).
InitializeFailed(out) ==
  \/ out.thrown
  \/ PropertyThrows(out.data)
  \/ Truthy(Get(out.data, "error"))

\* error?.message of the error caught by the outer catch.
InitializeErrorMessage(out) ==
  IF out.thrown THEN out.message
  ELSE IF PropertyThrows(out.data) THEN "Cannot read properties of null"
  ELSE "Initialize failed: " \o Interpolate(Get(Get(out.data, "error"), "message"))

\* Mutant of WithError: the outer catch returns the descriptor as it is.
WithErrorDropped(info, message) == info

\* return {...serverInfo, error: error?.message || 'Unknown error'}
WithError(info, message) ==
  [info EXCEPT !.error = OrElse(JStr(message), JStr("Unknown error"))]

\* Extract server information from the initialize response.
InfoAfterInitialize(info, data) ==
  LET initResult == Get(data, "result")
      si == Get(initResult, "serverInfo")
  IN IF ~Truthy(initResult) THEN info
     ELSE [info EXCEPT
             !.protocolVersion = OrElse(Get(initResult, "protocolVersion"), JStr("")),
             !.capabilities = OrElse(Get(initResult, "capabilities"), JObj(<<>>)),
             !.name = IF Truthy(si) THEN OrElse(Get(si, "name"), JStr("")) ELSE @,
             !.version = IF Truthy(si) THEN OrElse(Get(si, "version"), JStr("")) ELSE @]

\* Mutant of InfoAfterList: a listing call that fails wipes the lists
\* retrieved before it.
InfoAfterListClearing(info, method, out) ==
  LET f == ListField(method)
      result == Get(out.data, "result")
  IN IF ~out.thrown /\ ~PropertyThrows(out.data) /\ Truthy(result) /\ Truthy(Get(result, f))
     THEN [info EXCEPT ![f] = Get(result, f)]
     ELSE [info EXCEPT !.tools = JArr(<<>>), !.resources = JArr(<<>>),
                       !.prompts = JArr(<<>>), !.roots = JArr(<<>>)]

\* Steps 2 to 5: the list is taken from the response when the call returned
\* a result holding it; anything else leaves the descriptor as it was.
InfoAfterList(info, method, out) ==
  LET f == ListField(method)
      result == Get(out.data, "result")
  IN IF ~out.thrown /\ ~PropertyThrows(out.data) /\ Truthy(result) /\ Truthy(Get(result, f))
     THEN [info EXCEPT ![f] = Get(result, f)]
     ELSE info

\* The next call of the sequence that is sent: a listing call that throws
\* before sending is caught by its own try block and the sequence goes on.
NextCall(method, ini) ==
  LET later == {j \in (CallIndex(method) + 1)..Len(CallOrder) : CanSend(CallOrder[j], ini)}
  IN IF later = {} THEN "Done"
     ELSE CallOrder[CHOOSE j \in later : \A k \in later : j <= k]

\* initialize(): this.initialized = true runs when sendRequest returned,
\* whatever the response holds (final client only).
InitializedAfter(ini, method, out) ==
  IF variant = "final" /\ method = "initialize" /\ ~out.thrown THEN TRUE ELSE ini

\* History: the call returned a response that carries no error object.
Succeeded(out) ==
  /\ ~out.thrown
  /\ out.data.t = "object"
  /\ \A i \in 1..Len(out.data.kv) : out.data.kv[i][1] # "error"

\* History: an initialize call completed successfully.
InitOkAfter(ok, method, out) == ok \/ (method = "initialize" /\ Succeeded(out))

\* History: nothing served yet.
NothingServed ==
  [identity |-> <<>>, tools |-> JArr(<<>>), resources |-> JArr(<<>>),
   prompts |-> JArr(<<>>), roots |-> JArr(<<>>), failed |-> {}]

\* History: the methods whose call failed (it threw, or the response
\* carries an error object).
FailedAfter(failed, method, out) ==
  IF Succeeded(out) THEN failed ELSE failed \cup {method}

\* History: the record after the call of method completed with outcome out,
\* info being the descriptor after that call.
ServedAfter(sv, method, out, info) ==
  IF method = "initialize"
  THEN [sv EXCEPT !.identity = <<info.name, info.version, info.protocolVersion,
                                 info.capabilities>>,
                  !.failed = FailedAfter(@, method, out)]
  ELSE IF /\ method \in ListMethods
          /\ Succeeded(out)
          /\ \E i \in 1..Len(out.data.kv) :
                /\ out.data.kv[i][1] = "result"
                /\ out.data.kv[i][2].t = "object"
                /\ \E j \in 1..Len(out.data.kv[i][2].kv) :
                      out.data.kv[i][2].kv[j][1] = ListField(method)
  THEN [sv EXCEPT ![ListField(method)] =
          LET r == out.data.kv[CHOOSE i \in 1..Len(out.data.kv) :
                                 out.data.kv[i][1] = "result"][2]
          IN r.kv[CHOOSE j \in 1..Len(r.kv) : r.kv[j][1] = ListField(method)][2]]
  ELSE [sv EXCEPT !.failed = FailedAfter(@, method, out)]

(***************************************************************************)
(* The servers under test (the environment): what a server may answer.     *)
(* The entries are those of src/add.ts and of the spec's scenarios.        *)
(***************************************************************************)
Field(k, v) == <<k, v>>

ToolAdd ==
  JObj(<<Field("name", JStr("add")),
         Field("description", JStr("Add two numbers")),
         Field("inputSchema", JObj(<<Field("type", JStr("object")),
                                     Field("additionalProperties", JBool(FALSE))>>))>>)

ToolSubtract ==
  JObj(<<Field("name", JStr("subtract")),
         Field("description", JStr("Subtract two numbers")),
         Field("inputSchema", JObj(<<Field("type", JStr("object")),
                                     Field("additionalProperties", JBool(FALSE))>>))>>)

ResourceGuide ==
  JObj(<<Field("uri", JStr("math://operations")),
         Field("name", JStr("Math Operations Guide")),
         Field("mimeType", JStr("text/plain"))>>)

PromptMath ==
  JObj(<<Field("name", JStr("math-problem")),
         Field("description", JStr("Generate a math problem for practice")),
         Field("arguments", JArr(<<JObj(<<Field("name", JStr("difficulty")),
                                          Field("required", JBool(FALSE))>>)>>))>>)

RootWorkspace ==
  JObj(<<Field("uri", JStr("file:///workspace")), Field("name", JStr("workspace"))>>)

ServerCapabilities ==
  JObj(<<Field("tools", JObj(<<Field("listChanged", JBool(TRUE))>>)),
         Field("logging", JObj(<<>>))>>)

\* A JSON-RPC response carrying a result, and one carrying an error object.
ResultResponse(result) ==
  JObj(<<Field("jsonrpc", JStr("2.0")), Field("result", result)>>)

ErrorResponse(message) ==
  JObj(<<Field("jsonrpc", JStr("2.0")),
         Field("error", JObj(<<Field("code", JStr("-32601")),
                               Field("message", JStr(message))>>))>>)

InitializeResult ==
  JObj(<<Field("protocolVersion", JStr("2024-11-05")),
         Field("capabilities", ServerCapabilities),
         Field("serverInfo", JObj(<<Field("name", JStr("My Server")),
                                    Field("version", JStr("1.0.0"))>>))>>)

\* The lists a server may return for each listing call.  The two servers
\* compared hold two tools each and do not implement roots/list (they
\* answer it with an error).
ServerLists(method) ==
  CASE method = "tools/list" ->
         IF mode = "compare" THEN {<<ToolAdd, ToolSubtract>>}
         ELSE {<<ToolAdd>>, <<ToolAdd, ToolSubtract>>}
    [] method = "resources/list" -> {<<ResourceGuide>>}
    [] method = "prompts/list" -> {<<PromptMath>>}
    [] method = "roots/list" -> IF mode = "compare" THEN {} ELSE {<<RootWorkspace>>}

\* The JSON-RPC payloads a server may answer a call with: an error object,
\* a result, and for a listing call a result that holds the list or (a
\* server driven alone) a result without it; a server retrieved alone may
\* also answer with the JSON text null, which is no response object.
Payloads(method) ==
  {ErrorResponse("Method not found")} \cup
  (CASE method = "initialize" ->
          {ResultResponse(InitializeResult), ResultResponse(JObj(<<>>))}
     [] method = "ping" -> {ResultResponse(JObj(<<>>))}
     [] OTHER -> {ResultResponse(JObj(<<Field(ListField(method), JArr(l))>>)) :
                    l \in ServerLists(method)}
                 \cup (IF mode = "compare" THEN {} ELSE {ResultResponse(JObj(<<>>))}))
  \cup (IF mode = "solo" THEN {JNull} ELSE {})

\* The event ids of streaming responses and the mcp-session-id header values
\* a server may send (null: no such header).  Two servers compared use one
\* token each, sent with the initialize response only; a client driven alone
\* meets every kind of token on every response.
EventIds(method) ==
  IF mode = "compare"
  THEN (IF method = "initialize" THEN {<<"s1", "1">>} ELSE {})
  ELSE {<<"s1", "1">>, <<"s2", "1">>, <<"", "1">>}

HeaderTokens ==
  IF mode = "compare" THEN {JNull, JStr("s1")}
  ELSE {JNull, JStr(""), JStr("s1"), JStr("s2")}

\* The bodies a server may send for a payload: the plain encoding, the
\* streaming-event encoding with or without an id line, an event frame with
\* no data line, and a body that is no JSON at all (a server retrieved
\* alone sends every kind of such body, all of which JSON.parse rejects).
Bodies(method) ==
  UNION {{<<TextLine(JSONText(p))>>, <<EventLine, DataLine(JSONText(p))>>}
         \cup {<<EventLine, IdLine(e), DataLine(JSONText(p))>> : e \in EventIds(method)}
         : p \in Payloads(method)}
  \cup {<<EventLine, IdLine(e)>> : e \in EventIds(method)}
  \cup {<<TextLine(Garbage)>>}
  \cup (IF mode = "compare" THEN {} ELSE {<<EventLine, DataLine(Garbage)>>, <<>>})

\* HTTP statuses a server may answer with.
Statuses == {200, 500}

(***************************************************************************)
(* The client's steps.  A step runs from the event that resumes the client *)
(* (a call by the caller, the response headers, the body, the timer, a     *)
(* connection failure) to its next await.                                  *)
(***************************************************************************)
\* The most requests one client sends when its methods are called freely.
MaxRequests == 3

\* Mutant of Advance: the request counter is shared by all clients.
AdvanceSharedCounter(c, sid, ini, info, next, out, ok) ==
  /\ sessionId' = [sessionId EXCEPT ![c] = sid]
  /\ initialized' = [initialized EXCEPT ![c] = ini]
  /\ serverInfo' = [serverInfo EXCEPT ![c] = info]
  /\ lastRet' = [lastRet EXCEPT ![c] = IF mode = "api" THEN out ELSE @]
  /\ initOk' = [initOk EXCEPT ![c] = ok]
  /\ served' = [served EXCEPT ![c] =
       IF net[c].stage = "none" \/ mode = "api" THEN @
       ELSE ServedAfter(@, net[c].method, out, info)]
  /\ pc' = [pc EXCEPT ![c] = next]
  /\ IF next \in Methods
     THEN /\ requestId' = [d \in Clients |-> NextRequestId(requestId[d])]
          /\ sent' = [sent EXCEPT ![c] = Append(@, Request(requestId[c], next, sid))]
          /\ net' = [net EXCEPT ![c] = [stage |-> "fetch", method |-> next, timer |-> TRUE]]
     ELSE /\ UNCHANGED <<requestId, sent>>
          /\ net' = [net EXCEPT ![c] = NoCall]
  /\ UNCHANGED <<variant, mode, edits>>

\* The client's state after a step: its fields, the descriptor under
\* construction, and either the next request (sendRequest up to the await of
\* fetch: the envelope is built, the counter incremented, the timer armed)
\* or no call in flight.
Advance(c, sid, ini, info, next, out, ok) ==
  /\ sessionId' = [sessionId EXCEPT ![c] = sid]
  /\ initialized' = [initialized EXCEPT ![c] = ini]
  /\ serverInfo' = [serverInfo EXCEPT ![c] = info]
  /\ lastRet' = [lastRet EXCEPT ![c] = IF mode = "api" THEN out ELSE @]
  /\ initOk' = [initOk EXCEPT ![c] = ok]
  /\ served' = [served EXCEPT ![c] =
       IF net[c].stage = "none" \/ mode = "api" THEN @
       ELSE ServedAfter(@, net[c].method, out, info)]
  /\ pc' = [pc EXCEPT ![c] = next]
  /\ IF next \in Methods
     THEN /\ requestId' = [requestId EXCEPT ![c] = NextRequestId(@)]
          /\ sent' = [sent EXCEPT ![c] = Append(@, Request(requestId[c], next, sid))]
          /\ net' = [net EXCEPT ![c] = [stage |-> "fetch", method |-> next, timer |-> TRUE]]
     ELSE /\ UNCHANGED <<requestId, sent>>
          /\ net' = [net EXCEPT ![c] = NoCall]
  /\ UNCHANGED <<variant, mode, edits>>

\* The descriptor after the call of method completed with outcome out.
InfoAfter(info, method, out) ==
  IF method = "initialize" THEN InfoAfterInitialize(info, out.data)
  ELSE IF method \in ListMethods THEN InfoAfterList(info, method, out)
  ELSE info

\* Mutant of Resume: a call of getServerInfo that threw is sent again.
ResumeRetrying(c, out, sid) ==
  LET m == net[c].method
      ini == InitializedAfter(initialized[c], m, out)
      ok == InitOkAfter(initOk[c], m, out)
  IN IF mode = "api"
     THEN Advance(c, sid, ini, serverInfo[c], "Idle", out, ok)
     ELSE IF m = "initialize" /\ InitializeFailed(out)
     THEN Advance(c, sid, ini, WithError(serverInfo[c], InitializeErrorMessage(out)),
                  "Done", out, ok)
     ELSE IF out.thrown /\ Len(sent[c]) < Len(CallOrder)
     THEN Advance(c, sid, ini, serverInfo[c], m, out, ok)
     ELSE Advance(c, sid, ini, InfoAfter(serverInfo[c], m, out), NextCall(m, ini), out, ok)

\* The sendRequest in flight completes with outcome out, the session token
\* being sid: the caller goes on.  A public method called directly returns
\* to its caller; getServerInfo either gives up (initialize failed: the
\* outer catch) or goes on to its next call.
Resume(c, out, sid) ==
  LET m == net[c].method
      ini == InitializedAfter(initialized[c], m, out)
      ok == InitOkAfter(initOk[c], m, out)
  IN IF mode = "api"
     THEN Advance(c, sid, ini, serverInfo[c], "Idle", out, ok)
     ELSE IF m = "initialize" /\ InitializeFailed(out)
     THEN Advance(c, sid, ini, WithError(serverInfo[c], InitializeErrorMessage(out)),
                  "Done", out, ok)
     ELSE Advance(c, sid, ini, InfoAfter(serverInfo[c], m, out), NextCall(m, ini), out, ok)

\* fetch rejects: the connection failed.
FetchReject(c) ==
  /\ net[c].stage = "fetch"
  /\ Resume(c, Threw("fetch failed"), sessionId[c])
  /\ UNCHANGED cmp

\* The timeout timer fires while it is armed: controller.abort() makes the
\* pending fetch reject.
TimerFire(c) ==
  /\ net[c].stage = "fetch"
  /\ net[c].timer
  /\ Resume(c, Threw("This operation was aborted"), sessionId[c])
  /\ UNCHANGED cmp

\* fetch resolves with the response headers: clearTimeout, then the status
\* check, then (final client) the session header, then await response.text().
FetchResolve(c) ==
  /\ net[c].stage = "fetch"
  /\ \E status \in Statuses, header \in HeaderTokens :
       IF ~StatusOk(status)
       THEN Resume(c, Threw("HTTP " \o ToString(status)), sessionId[c])
       ELSE /\ net' = [net EXCEPT ![c] = [@ EXCEPT !.stage = "body", !.timer = FALSE]]
            /\ sessionId' = [sessionId EXCEPT ![c] =
                 IF variant = "final" THEN SessionFromHeader(@, net[c].method, header)
                 ELSE @]
            /\ UNCHANGED <<variant, mode, requestId, initialized, pc, sent,
                           serverInfo, lastRet, initOk, served, edits>>
  /\ UNCHANGED cmp

\* response.text() resolves with the body: the body is parsed and the call
\* returns or throws.
BodyArrives(c) ==
  /\ net[c].stage = "body"
  /\ \E body \in Bodies(net[c].method) :
       Resume(c, ParseBody(body),
              IF variant = "legacy" THEN SessionFromBody(sessionId[c], body)
              ELSE sessionId[c])
  /\ UNCHANGED cmp

\* A caller calls a public method of an idle client (initialize, listTools,
\* listResources, listPrompts, listRoots, ping).
Call(c) ==
  /\ mode = "api"
  /\ pc[c] = "Idle"
  /\ Len(sent[c]) < MaxRequests
  /\ \E m \in Methods :
       IF CanSend(m, initialized[c])
       THEN Advance(c, sessionId[c], initialized[c], serverInfo[c], m, lastRet[c], initOk[c])
       ELSE Advance(c, sessionId[c], initialized[c], serverInfo[c], "Idle",
                    Threw("Client must be initialized before listing"), initOk[c])
  /\ UNCHANGED cmp

\* getMCPServerInfo(endpoint): a client is created and getServerInfo runs to
\* its first await, the initialize request.
getMCPServerInfo(c) ==
  /\ mode = "solo"
  /\ pc[c] = "Created"
  /\ Advance(c, sessionId[c], initialized[c], EmptyServerInfo(c), "initialize",
             lastRet[c], initOk[c])
  /\ UNCHANGED cmp

(***************************************************************************)
(* The comparator: normalizeServerInfo, convertToServerInterface,          *)
(* compareServerConfigs and compareServers, in their legacy                *)
(* (src/test_id.ts) and final (src/test_id_final.ts) forms.                *)
(***************************************************************************)
\* (a.name || '') and (a.name || a.uri || '')
NameKey(e) == OrElse(Get(e, "name"), JStr("")).s

NameOrUriKey(e) == OrElse(OrElse(Get(e, "name"), Get(e, "uri")), JStr("")).s

SortedList(a, byUri) ==
  LET xs == IF Truthy(a) THEN a.xs ELSE <<>>
  IN JArr(SortByKeys(xs, [i \in 1..Len(xs) |->
                            IF byUri THEN NameOrUriKey(xs[i]) ELSE NameKey(xs[i])]))

normalizeServerInfoLegacy(info) ==
  [info EXCEPT !.tools = SortedList(@, FALSE),
               !.resources = SortedList(@, TRUE),
               !.prompts = SortedList(@, FALSE),
               !.roots = SortedList(@, TRUE)]

normalizeServerInfoFinal(info) ==
  [name |-> OrElse(info.name, JStr("")),
   version |-> OrElse(info.version, JStr("")),
   protocolVersion |-> OrElse(info.protocolVersion, JStr("")),
   capabilities |-> OrElse(info.capabilities, JObj(<<>>)),
   tools |-> OrElse(info.tools, JArr(<<>>)),
   resources |-> OrElse(info.resources, JArr(<<>>)),
   prompts |-> OrElse(info.prompts, JArr(<<>>)),
   roots |-> OrElse(info.roots, JArr(<<>>)),
   endpoint |-> info.endpoint,
   error |-> info.error]

normalizeServerInfo(info) ==
  IF variant = "final" THEN normalizeServerInfoFinal(info)
  ELSE normalizeServerInfoLegacy(info)

convertToServerInterfaceLegacy(info) ==
  [name |-> info.name, version |-> info.version,
   tools |-> OrElse(info.tools, JArr(<<>>)),
   resources |-> OrElse(info.resources, JArr(<<>>)),
   prompts |-> OrElse(info.prompts, JArr(<<>>)),
   capabilities |-> info.capabilities]

convertToServerInterfaceFinal(info) ==
  [name |-> info.name, version |-> info.version,
   tools |-> JArr([i \in 1..Length(info.tools) |-> ProjectTool(info.tools.xs[i])]),
   resources |-> JArr([i \in 1..Length(info.resources) |->
                         ProjectResource(info.resources.xs[i])]),
   prompts |-> JArr([i \in 1..Length(info.prompts) |-> ProjectPrompt(info.prompts.xs[i])]),
   capabilities |-> info.capabilities]

\* Mutant of convertToServerInterface: the protocol version is passed on as
\* the version.
convertToServerInterfaceLeaking(info) ==
  [convertToServerInterfaceFinal(info) EXCEPT !.version = info.protocolVersion]

convertToServerInterface(info) ==
  IF variant = "final" THEN convertToServerInterfaceFinal(info)
  ELSE convertToServerInterfaceLegacy(info)

\* The fingerprint compareServers computes for a retrieved descriptor.
Fingerprint(info) == generateServerID(convertToServerInterface(normalizeServerInfo(info)))

\* The entry differences.push adds when cond holds: the text pushed, with
\* the category the text begins with.
PushIf(cond, category, rest) ==
  IF cond THEN <<[category |-> category, text |-> category \o rest]>> ELSE <<>>

Quoted(v) == "\"" \o Interpolate(v) \o "\""

IdentityDifferences(s1, s2) ==
  PushIf(s1.name # s2.name, "Name", ": " \o Quoted(s1.name) \o " vs " \o Quoted(s2.name))
  \o PushIf(s1.version # s2.version, "Version",
            ": " \o Quoted(s1.version) \o " vs " \o Quoted(s2.version))
  \o PushIf(s1.protocolVersion # s2.protocolVersion, "Protocol Version",
            ": " \o Quoted(s1.protocolVersion) \o " vs " \o Quoted(s2.protocolVersion))

CapabilityDifferences(s1, s2) ==
  PushIf(JSONStringify(s1.capabilities) # JSONStringify(s2.capabilities),
         "Capabilities", " differ")

\* Mutant of CountDifference: the first length is written twice.
CountDifferenceSameLength(label, a1, a2) ==
  PushIf(Length(a1) # Length(a2), label \o "s count",
         ": " \o ToString(Length(a1)) \o " vs " \o ToString(Length(a1)))

CountDifference(label, a1, a2) ==
  PushIf(Length(a1) # Length(a2), label \o "s count",
         ": " \o ToString(Length(a1)) \o " vs " \o ToString(Length(a2)))

\* `${entry.name || i}` and `${entry.name || entry.uri || i}`, i from 0.
EntryLabel(e, i, byUri) ==
  LET n == IF byUri THEN OrElse(Get(e, "name"), Get(e, "uri")) ELSE Get(e, "name")
  IN IF Truthy(n) THEN Interpolate(n) ELSE ToString(i - 1)

\* The legacy comparison of one list: the counts, else entry by entry.
ListDifferencesLegacy(label, l1, l2, byUri) ==
  LET a1 == OrElse(l1, JArr(<<>>))
      a2 == OrElse(l2, JArr(<<>>))
      F[i \in 0..Length(a1)] ==
        IF i = 0 THEN <<>>
        ELSE F[i - 1] \o PushIf(JSONStringify(a1.xs[i]) # JSONStringify(a2.xs[i]), label,
                                " \"" \o EntryLabel(a1.xs[i], i, byUri)
                                  \o "\" configuration differs")
  IN IF Length(a1) # Length(a2) THEN CountDifference(label, a1, a2)
     ELSE F[Length(a1)]

compareServerConfigsLegacy(s1, s2) ==
  IdentityDifferences(s1, s2)
  \o ListDifferencesLegacy("Tool", s1.tools, s2.tools, FALSE)
  \o ListDifferencesLegacy("Resource", s1.resources, s2.resources, TRUE)
  \o ListDifferencesLegacy("Prompt", s1.prompts, s2.prompts, FALSE)
  \o ListDifferencesLegacy("Root", s1.roots, s2.roots, TRUE)
  \o CapabilityDifferences(s1, s2)
  \o PushIf(Truthy(s1.error) \/ Truthy(s2.error), "Server errors",
            ": " \o Interpolate(OrElse(s1.error, JStr("none"))) \o " vs "
              \o Interpolate(OrElse(s2.error, JStr("none"))))

compareServerConfigsFinal(s1, s2) ==
  IdentityDifferences(s1, s2)
  \o CapabilityDifferences(s1, s2)
  \o CountDifference("Tool", s1.tools, s2.tools)
  \o CountDifference("Resource", s1.resources, s2.resources)
  \o CountDifference("Prompt", s1.prompts, s2.prompts)
  \o CountDifference("Root", s1.roots, s2.roots)
  \o (IF Truthy(s1.error) /\ ~Truthy(s2.error)
      THEN PushIf(TRUE, "Server errors", ": " \o Interpolate(s1.error) \o " vs none")
      ELSE IF ~Truthy(s1.error) /\ Truthy(s2.error)
      THEN PushIf(TRUE, "Server errors", ": none vs " \o Interpolate(s2.error))
      ELSE PushIf(Truthy(s1.error) /\ Truthy(s2.error) /\ s1.error # s2.error,
                  "Server errors",
                  ": " \o Interpolate(s1.error) \o " vs " \o Interpolate(s2.error)))

compareServerConfigs(s1, s2) ==
  IF variant = "final" THEN compareServerConfigsFinal(s1, s2)
  ELSE compareServerConfigsLegacy(s1, s2)

NotCompared == [stage |-> "idle", hash1 |-> "", hash2 |-> "", verdict |-> "none",
                differences |-> <<>>]

\* Mutant of Comparison: the verdict follows the differences found.
ComparisonByDifferences(raw1, raw2) ==
  LET server1 == normalizeServerInfo(raw1)
      server2 == normalizeServerInfo(raw2)
      differences == compareServerConfigs(server1, server2)
  IN [stage |-> "done",
      hash1 |-> generateServerID(convertToServerInterface(server1)),
      hash2 |-> generateServerID(convertToServerInterface(server2)),
      verdict |-> IF differences = <<>> THEN "SUCCESS" ELSE "DIFFERENCE",
      differences |-> differences]

\* compareServers from the hashes on: the verdict and, on a mismatch, the
\* differences.
Comparison(raw1, raw2) ==
  LET server1 == normalizeServerInfo(raw1)
      server2 == normalizeServerInfo(raw2)
      hash1 == generateServerID(convertToServerInterface(server1))
      hash2 == generateServerID(convertToServerInterface(server2))
  IN [stage |-> "done", hash1 |-> hash1, hash2 |-> hash2,
      verdict |-> IF hash1 = hash2 THEN "SUCCESS" ELSE "DIFFERENCE",
      differences |-> IF hash1 = hash2 THEN <<>>
                      ELSE compareServerConfigs(server1, server2)]

\* compareServers up to its await of Promise.all: both clients are created
\* and both getServerInfo calls run to their first await.
compareServersStart ==
  /\ mode = "compare"
  /\ cmp.stage = "idle"
  /\ cmp' = [cmp EXCEPT !.stage = "awaiting"]
  /\ requestId' = [c \in Clients |-> NextRequestId(requestId[c])]
  /\ sent' = [c \in Clients |->
                Append(sent[c], Request(requestId[c], "initialize", sessionId[c]))]
  /\ net' = [c \in Clients |-> [stage |-> "fetch", method |-> "initialize", timer |-> TRUE]]
  /\ pc' = [c \in Clients |-> "initialize"]
  /\ serverInfo' = [c \in Clients |-> EmptyServerInfo(c)]
  /\ UNCHANGED <<variant, mode, sessionId, initialized, lastRet, initOk, served, edits>>

\* Mutant of compareServersFinish: the comparison starts as soon as one
\* retrieval has ended.
compareServersFinishEarly ==
  /\ mode \in {"compare", "hash"}
  /\ cmp.stage = "awaiting"
  /\ \E c \in Clients : pc[c] = "Done"
  /\ cmp' = Comparison(serverInfo[1], serverInfo[2])
  /\ UNCHANGED <<variant, mode, requestId, sessionId, initialized, pc, net, sent,
                 serverInfo, lastRet, initOk, served, edits>>

\* compareServers after Promise.all resolved: both descriptors are
\* normalized, hashed and compared.
compareServersFinish ==
  /\ mode \in {"compare", "hash"}
  /\ cmp.stage = "awaiting"
  /\ \A c \in Clients : pc[c] = "Done"
  /\ cmp' = Comparison(serverInfo[1], serverInfo[2])
  /\ UNCHANGED <<variant, mode, requestId, sessionId, initialized, pc, net, sent,
                 serverInfo, lastRet, initOk, served, edits>>

(***************************************************************************)
(* The comparator on given descriptors ("hash" mode): descriptor 1 is      *)
(* drawn from a bounded set, descriptor 2 is derived from it by edits.     *)
(***************************************************************************)
\* The longest tools list of a drawn descriptor (it has at most one
\* resource and one prompt; edits add entries).
MaxList == 2

ToolAddOther ==
  JObj(<<Field("name", JStr("add")),
         Field("description", JStr("Add two integers")),
         Field("inputSchema", JObj(<<Field("type", JStr("object")),
                                     Field("additionalProperties", JBool(FALSE))>>))>>)

ResourceGuideOther ==
  JObj(<<Field("uri", JStr("math://operations/v2")),
         Field("name", JStr("Math Operations Guide")),
         Field("mimeType", JStr("text/markdown"))>>)

SeqsUpTo(S, n) == UNION {[1..k -> S] : k \in 0..n}

\* The descriptors drawn: those of a server that answered initialize, with
\* any tools of the entries above (two tools may share a name) and at most
\* one resource and one prompt.
DrawnDescriptors ==
  {[InfoAfterInitialize(EmptyServerInfo(1), ResultResponse(InitializeResult))
      EXCEPT !.tools = JArr(t), !.resources = JArr(r), !.prompts = JArr(p)] :
     t \in SeqsUpTo({ToolAdd, ToolAddOther, ToolSubtract}, MaxList),
     r \in SeqsUpTo({ResourceGuide, ResourceGuideOther}, 1),
     p \in SeqsUpTo({PromptMath}, 1)}

SwapAt(xs, i) ==
  [k \in 1..Len(xs) |-> IF k = i THEN xs[i + 1] ELSE IF k = i + 1 THEN xs[i] ELSE xs[k]]

\* Two neighbouring entries of one list of descriptor 2 change places (any
\* permutation is a sequence of such steps).
PermuteList ==
  /\ mode = "hash"
  /\ cmp.stage = "awaiting"
  /\ edits \subseteq {"permute"}
  /\ \E f \in {"tools", "resources", "prompts"} :
       \E i \in 1..(Length(serverInfo[2][f]) - 1) :
         serverInfo' = [serverInfo EXCEPT ![2][f] = JArr(SwapAt(@.xs, i))]
  /\ edits' = edits \cup {"permute"}
  /\ UNCHANGED <<variant, mode, requestId, sessionId, initialized, pc, net, sent,
                 lastRet, initOk, served, cmp>>

\* o with its property k set to v (o.k = v): a key the object already has
\* keeps its place, a new key comes last.
Put(o, k, v) ==
  IF \E i \in 1..Len(o.kv) : o.kv[i][1] = k
  THEN JObj([i \in 1..Len(o.kv) |-> IF o.kv[i][1] = k THEN <<k, v>> ELSE o.kv[i]])
  ELSE JObj(Append(o.kv, <<k, v>>))

\* The lists of a descriptor and the fields of their entries that
\* generateServerID keeps.
HashedLists == {"tools", "resources", "prompts"}

HashedKeys(f) ==
  CASE f = "tools" -> {"name", "description", "inputSchema"}
    [] f = "resources" -> {"name", "description", "mimeType", "uriTemplate"}
    [] f = "prompts" -> {"name", "description", "arguments"}

\* The values an edit may give a field of an entry.
EditValues(k) ==
  CASE k = "name" -> {JStr("add"), JStr("subtract")}
    [] k = "description" -> {JStr("Add two numbert")}
    [] k = "inputSchema" -> {JObj(<<Field("type", JStr("string"))>>)}
    [] k = "arguments" -> {JArr(<<>>)}
    [] k = "mimeType" -> {JStr("text/html")}
    [] k = "uriTemplate" -> {JStr("math://{operation}")}

\* The values an edit may give a field of the descriptor itself.
DescriptorValues(f) ==
  CASE f = "name" -> {JStr("Other Server")}
    [] f = "version" -> {JStr("1.0.1")}
    [] f = "capabilities" ->
         {JObj(<<Field("tools", JObj(<<Field("listChanged", JBool(FALSE))>>))>>)}
    [] f = "protocolVersion" -> {JStr("2025-03-26"), JStr("2024-11-05")}
    [] f = "roots" -> {JArr(<<RootWorkspace>>), JArr(<<>>)}
    [] f = "error" -> {JStr("fetch failed"), JUndef}

\* The entries an edit may add to a list.
NewEntries(f) ==
  CASE f = "tools" -> {ToolSubtract}
    [] f = "resources" -> {ResourceGuide}
    [] f = "prompts" -> {PromptMath}
    [] f = "roots" -> {RootWorkspace}

\* Descriptor 2 gets another protocolVersion, roots or error: the fields
\* convertToServerInterface drops.
EditUnhashed ==
  /\ mode = "hash"
  /\ cmp.stage = "awaiting"
  /\ edits \subseteq {"unhashed"}
  /\ \E f \in {"protocolVersion", "roots", "error"} :
       \E v \in DescriptorValues(f) :
         /\ v # serverInfo[2][f]
         /\ serverInfo' = [serverInfo EXCEPT ![2][f] = v]
  /\ edits' = {"unhashed"}
  /\ UNCHANGED <<variant, mode, requestId, sessionId, initialized, pc, net, sent,
                 lastRet, initOk, served, cmp>>

\* Descriptor 2 gets another value in one field that generateServerID keeps:
\* the server name or version, the capabilities, or a kept field of one entry.
EditHashed ==
  /\ mode = "hash"
  /\ cmp.stage = "awaiting"
  /\ edits = {}
  /\ \/ \E f \in {"name", "version", "capabilities"} :
          \E v \in DescriptorValues(f) :
            /\ v # serverInfo[2][f]
            /\ serverInfo' = [serverInfo EXCEPT ![2][f] = v]
     \/ \E f \in HashedLists :
          \E i \in 1..Length(serverInfo[2][f]) :
            \E k \in HashedKeys(f) :
              \E v \in EditValues(k) :
                /\ v # Get(serverInfo[2][f].xs[i], k)
                /\ serverInfo' = [serverInfo EXCEPT ![2][f].xs[i] = Put(@, k, v)]
  /\ edits' = {"hashed"}
  /\ UNCHANGED <<variant, mode, requestId, sessionId, initialized, pc, net, sent,
                 lastRet, initOk, served, cmp>>

\* One list of descriptor 2 gets one entry more, or loses its last entry.
EditCount ==
  /\ mode = "hash"
  /\ cmp.stage = "awaiting"
  /\ edits = {}
  /\ \E f \in HashedLists \cup {"roots"} :
       \/ \E e \in NewEntries(f) :
            serverInfo' = [serverInfo EXCEPT ![2][f] = JArr(Append(@.xs, e))]
       \/ /\ Length(serverInfo[2][f]) > 0
          /\ serverInfo' = [serverInfo EXCEPT ![2][f] =
                              JArr(SubSeq(@.xs, 1, Len(@.xs) - 1))]
  /\ edits' = {"count"}
  /\ UNCHANGED <<variant, mode, requestId, sessionId, initialized, pc, net, sent,
                 lastRet, initOk, served, cmp>>

\* The fields a server may add to an entry beyond those generateServerID
\* keeps.
ExtraFields ==
  {Field("annotations", JObj(<<Field("readOnlyHint", JBool(TRUE))>>)),
   Field("title", JStr("Calculator"))}

\* One entry of descriptor 2 gets a field that generateServerID does not
\* keep.
EditExtra ==
  /\ mode = "hash"
  /\ cmp.stage = "awaiting"
  /\ edits = {}
  /\ \E f \in HashedLists :
       \E i \in 1..Length(serverInfo[2][f]) :
         \E x \in ExtraFields :
           serverInfo' = [serverInfo EXCEPT ![2][f].xs[i] = Put(@, x[1], x[2])]
  /\ edits' = {"extra"}
  /\ UNCHANGED <<variant, mode, requestId, sessionId, initialized, pc, net, sent,
                 lastRet, initOk, served, cmp>>

\* The object o built with its keys inserted in the opposite order.
ReverseKeys(o) == JObj([i \in 1..Len(o.kv) |-> o.kv[Len(o.kv) + 1 - i]])

\* The nested value v (an inputSchema, an arguments array, the
\* capabilities) with the keys of its object, or of each object it lists,
\* inserted in the opposite order.
Reordered(v) ==
  IF v.t = "object" THEN ReverseKeys(v)
  ELSE IF v.t = "array"
  THEN JArr([i \in 1..Len(v.xs) |-> IF v.xs[i].t = "object" THEN ReverseKeys(v.xs[i])
                                     ELSE v.xs[i]])
  ELSE v

\* One nested object of descriptor 2 (the capabilities, a tool's
\* inputSchema, a prompt's arguments) is built with another key order.
EditKeyOrder ==
  /\ mode = "hash"
  /\ cmp.stage = "awaiting"
  /\ edits = {}
  /\ \/ /\ Reordered(serverInfo[2].capabilities) # serverInfo[2].capabilities
        /\ serverInfo' = [serverInfo EXCEPT ![2].capabilities = Reordered(@)]
     \/ \E f \in {"tools", "prompts"} :
          \E i \in 1..Length(serverInfo[2][f]) :
            LET k == IF f = "tools" THEN "inputSchema" ELSE "arguments"
                v == Get(serverInfo[2][f].xs[i], k)
            IN /\ Reordered(v) # v
               /\ serverInfo' = [serverInfo EXCEPT ![2][f].xs[i] = Put(@, k, Reordered(v))]
  /\ edits' = {"keyorder"}
  /\ UNCHANGED <<variant, mode, requestId, sessionId, initialized, pc, net, sent,
                 lastRet, initOk, served, cmp>>

(***************************************************************************)
(* Specifications.                                                         *)
(***************************************************************************)
InitMode(m) ==
  /\ variant \in {"legacy", "final"}
  /\ mode = m
  /\ requestId = [c \in Clients |-> 1]
  /\ sessionId = [c \in Clients |-> JNull]
  /\ initialized = [c \in Clients |-> FALSE]
  /\ pc = [c \in Clients |-> IF m = "api" THEN "Idle" ELSE IF m = "hash" THEN "Done"
                                                      ELSE "Created"]
  /\ net = [c \in Clients |-> NoCall]
  /\ sent = [c \in Clients |-> <<>>]
  /\ lastRet = [c \in Clients |-> NoOutcome]
  /\ initOk = [c \in Clients |-> FALSE]
  /\ served = [c \in Clients |-> NothingServed]
  /\ edits = {}

\* compareServers on two endpoints.
Init ==
  /\ InitMode("compare")
  /\ serverInfo = [c \in Clients |-> EmptyServerInfo(c)]
  /\ cmp = NotCompared

ClientStep ==
  \E c \in Active : FetchReject(c) \/ TimerFire(c) \/ FetchResolve(c) \/ BodyArrives(c)

Next == compareServersStart \/ ClientStep \/ compareServersFinish

Spec == Init /\ [][Next]_vars

\* One retrieval, getMCPServerInfo on one endpoint.
InitSolo ==
  /\ InitMode("solo")
  /\ serverInfo = [c \in Clients |-> EmptyServerInfo(c)]
  /\ cmp = NotCompared

NextSolo == getMCPServerInfo(1) \/ ClientStep

SpecSolo == InitSolo /\ [][NextSolo]_vars

\* One retrieval under the scheduling the runtime guarantees: the caller's
\* call runs, and a timer that stays armed fires.  Nothing is assumed of the
\* server: it may never answer, or never finish a body.
FairSolo == SpecSolo /\ WF_vars(getMCPServerInfo(1)) /\ WF_vars(TimerFire(1))

\* One client whose public methods are called in any order.
InitApi ==
  /\ InitMode("api")
  /\ serverInfo = [c \in Clients |-> EmptyServerInfo(c)]
  /\ cmp = NotCompared

NextApi == Call(1) \/ ClientStep

SpecApi == InitApi /\ [][NextApi]_vars

\* The comparator on drawn descriptors.
InitHash ==
  /\ InitMode("hash")
  /\ \E d \in DrawnDescriptors : serverInfo = [c \in Clients |-> d]
  /\ cmp = [NotCompared EXCEPT !.stage = "awaiting"]

NextHash ==
  \/ PermuteList \/ EditUnhashed \/ EditHashed \/ EditCount \/ EditExtra
  \/ EditKeyOrder
  \/ compareServersFinish

SpecHash == InitHash /\ [][NextHash]_vars

(***************************************************************************)
(* Claims.                                                                 *)
(***************************************************************************)
\* The names of the entries of a list are pairwise different.
UniqueNames(a) ==
  \A i, j \in 1..Length(a) : Get(a.xs[i], "name") = Get(a.xs[j], "name") => i = j

\* C1: for every descriptor D, whose lists may hold several entries with the
\* same name, and every permutation of D's tools, resources or prompts,
\* generateServerID returns the same digest for the permuted descriptor
\* (descriptor 2) as for D (descriptor 1).
C1_PermutationInvariant ==
  (mode = "hash" /\ edits \subseteq {"permute"})
    => generateServerID(convertToServerInterface(serverInfo[1]))
         = generateServerID(convertToServerInterface(serverInfo[2]))

\* C1 holds of the descriptors whose lists hold no two entries of one name:
\* the digest changes only when entries of the same name change places.
C1_UniqueNamesInvariant ==
  (\A f \in {"tools", "resources", "prompts"} : UniqueNames(serverInfo[1][f]))
    => C1_PermutationInvariant

\* The retrievals: a client runs getServerInfo.
Retrieving == mode \in {"compare", "solo"}

Lists == {"tools", "resources", "prompts", "roots"}

\* C2: compareServers never reports the verdict 'equivalent' (SUCCESS) when
\* at least one of the two retrieved descriptors has error set, also when
\* both have.
C2_NoSuccessWithError ==
  (cmp.stage = "done" /\ \E c \in Clients : Truthy(serverInfo[c].error))
    => cmp.verdict # "SUCCESS"

\* C3: if the initialize call of getServerInfo fails or returns a response
\* carrying an error object, the returned descriptor has error set, empty
\* lists, empty name, version and protocolVersion, and the retrieval sends no
\* further request.
C3_InitializeFailure ==
  \A c \in Clients :
    (Retrieving /\ pc[c] \notin {"Created", "initialize"} /\ ~initOk[c])
      => /\ pc[c] = "Done"
         /\ net[c].stage = "none"
         /\ Len(sent[c]) = 1
         /\ Truthy(serverInfo[c].error)
         /\ \A f \in Lists : serverInfo[c][f] = JArr(<<>>)
         /\ serverInfo[c].name = JStr("")
         /\ serverInfo[c].version = JStr("")
         /\ serverInfo[c].protocolVersion = JStr("")

\* A retrieval ended by an initialize response that carries an error object.
C3_Witness ==
  /\ mode = "solo"
  /\ pc[1] = "Done"
  /\ ~initOk[1]
  /\ serverInfo[1].error = JStr("Initialize failed: Method not found")

\* C4: whenever exactly one of the two descriptors has error set, the output
\* of compareServers contains a 'Server errors: ...' entry.
C4_ReachabilityReported ==
  (/\ cmp.stage = "done"
   /\ Truthy(serverInfo[1].error) # Truthy(serverInfo[2].error))
    => \E i \in 1..Len(cmp.differences) : cmp.differences[i].category = "Server errors"

\* C5: no listing request is in flight (was sent) before an initialize call
\* of that client has completed successfully.
C5_NoListingBeforeInitialize ==
  \A c \in Clients :
    (net[c].stage # "none" /\ net[c].method \in ListMethods) => initOk[c]

\* C6: when initialize succeeds, whichever of the five follow-up calls fail,
\* getServerInfo returns a descriptor without error in which each list whose
\* call succeeded is the list the server returned, each list whose call
\* failed is empty, and identity and capabilities are those of initialize.
C6_PartialFailureIsolation ==
  \A c \in Clients :
    (Retrieving /\ pc[c] = "Done" /\ initOk[c])
      => /\ serverInfo[c].error = JUndef
         /\ \A f \in Lists : serverInfo[c][f] = served[c][f]
         /\ \A m \in ListMethods \cap served[c].failed :
              serverInfo[c][ListField(m)] = JArr(<<>>)
         /\ <<serverInfo[c].name, serverInfo[c].version, serverInfo[c].protocolVersion,
              serverInfo[c].capabilities>> = served[c].identity

\* A retrieval in which resources/list and ping failed and the other calls
\* returned their lists.
C6_Witness ==
  /\ mode = "solo"
  /\ pc[1] = "Done"
  /\ initOk[1]
  /\ served[1].failed = {"resources/list", "ping"}
  /\ serverInfo[1].tools = JArr(<<ToolAdd, ToolSubtract>>)
  /\ serverInfo[1].prompts = JArr(<<PromptMath>>)
  /\ serverInfo[1].roots = JArr(<<RootWorkspace>>)
  /\ serverInfo[1].name = JStr("My Server")

\* C7: every call made through sendRequest eventually returns or throws,
\* whatever the server does, provided the timer fires while it is armed;
\* so every getServerInfo eventually reaches Done.
C7_EveryCallCompletes ==
  /\ \A m \in Methods :
       (net[1].stage # "none" /\ net[1].method = m)
         ~> (net[1].stage = "none" \/ net[1].method # m)
  /\ <>(pc[1] = "Done")

\* The client holds a session token.
HoldsToken(c) == Truthy(sessionId[c])

\* C8: once a client holds a session token, the token never changes: no
\* later response replaces it.
C8_TokenNeverChanges ==
  [][\A c \in Clients : HoldsToken(c) => sessionId'[c] = sessionId[c]]_vars

\* The session header of a sent request: its value, undefined when none.
SessionHeader(r) ==
  OrElse(Get(r.headers, "mcp-session-id"), Get(r.headers, "X-Session-ID"))

LastSent(c) == sent[c][Len(sent[c])]

\* A client that held a token (its second request carried it) has completed
\* a second initialize call, which returned a response.
C8_Witness ==
  /\ mode = "api"
  /\ pc[1] = "Idle"
  /\ Len(sent[1]) = 3
  /\ sent[1][1].method = "initialize"
  /\ sent[1][2].method = "ping"
  /\ SessionHeader(sent[1][2]) = JStr("s1")
  /\ sent[1][3].method = "initialize"
  /\ ~lastRet[1].thrown
  /\ sessionId[1] = JStr("s1")

\* C9: every request other than initialize carries the token the client
\* holds in the session header, and an initialize request carries no session
\* header, even when a token is held.  (While a request awaits its response
\* headers the client's token is the one it held when it sent the request.)
C9_SessionHeader ==
  \A c \in Clients :
    net[c].stage = "fetch"
      => /\ (LastSent(c).method # "initialize" /\ HoldsToken(c))
              => SessionHeader(LastSent(c)) = sessionId[c]
         /\ LastSent(c).method = "initialize" => SessionHeader(LastSent(c)) = JUndef

\* C10: the k-th request a client sends carries id k, whether the calls
\* before it succeeded, failed or timed out.
C10_RequestIds ==
  \A c \in Clients :
    /\ \A k \in 1..Len(sent[c]) : sent[c][k].id = k
    /\ requestId[c] = Len(sent[c]) + 1

\* A request was sent after a call that timed out.
C10_Witness ==
  /\ mode = "api"
  /\ Len(sent[1]) = 3
  /\ net[1].stage = "fetch"
  /\ lastRet[1] = Threw("This operation was aborted")
  /\ LastSent(1).id = 3

\* The two descriptors agree on every field generateServerID keeps.
SameHashedFields ==
  /\ serverInfo[1].name = serverInfo[2].name
  /\ serverInfo[1].version = serverInfo[2].version
  /\ serverInfo[1].tools = serverInfo[2].tools
  /\ serverInfo[1].resources = serverInfo[2].resources
  /\ serverInfo[1].prompts = serverInfo[2].prompts
  /\ serverInfo[1].capabilities = serverInfo[2].capabilities

\* C11: two descriptors that differ only in protocolVersion, roots or error
\* (name, version, tools, resources, prompts and capabilities equal) get equal
\* fingerprints from normalizeServerInfo, convertToServerInterface and
\* generateServerID.
C11_UnhashedFieldsIgnored ==
  (mode = "hash" /\ SameHashedFields)
    => Fingerprint(serverInfo[1]) = Fingerprint(serverInfo[2])

\* C11 witness: compareServers found equal hashes for two descriptors that
\* differ in protocolVersion, in roots and in error.
C11_Witness ==
  /\ mode = "hash"
  /\ cmp.stage = "done"
  /\ SameHashedFields
  /\ serverInfo[1].protocolVersion # serverInfo[2].protocolVersion
  /\ serverInfo[1].roots # serverInfo[2].roots
  /\ serverInfo[1].error # serverInfo[2].error
  /\ cmp.hash1 = cmp.hash2

\* The canonical serialization generateServerID hashes for a descriptor.
Serialization(info) == JSONStringify(HashableData(convertToServerInterface(info)))

\* C12: two descriptors that differ in one field generateServerID keeps (the
\* server name or version, a capability flag, or a tool's name, description
\* or inputSchema, a resource's name, description, mimeType or uriTemplate,
\* a prompt's name, description or arguments) have different canonical
\* serializations, hence different digests, the hash being injective.
C12_HashedFieldsMatter ==
  (mode = "hash" /\ edits = {"hashed"})
    => LET s1 == Serialization(serverInfo[1])
           s2 == Serialization(serverInfo[2])
       IN s1 # s2 /\ Sha256Hex(s1) # Sha256Hex(s2)

\* C12 witness: compareServers found different hashes for two descriptors
\* that differ only in the description of one tool.
C12_Witness ==
  /\ mode = "hash"
  /\ edits = {"hashed"}
  /\ cmp.stage = "done"
  /\ cmp.hash1 # cmp.hash2
  /\ Length(serverInfo[1].tools) = Length(serverInfo[2].tools)
  /\ \E i \in 1..Length(serverInfo[1].tools) :
       /\ Get(serverInfo[1].tools.xs[i], "description")
            # Get(serverInfo[2].tools.xs[i], "description")
       /\ Get(serverInfo[1].tools.xs[i], "name") = Get(serverInfo[2].tools.xs[i], "name")

\* The entries of a list in the order of the name-based sort.
ByName(a) == SortedList(a, FALSE).xs

\* The texts of the differences compareServerConfigs returns for the two
\* normalized descriptors.
DiffTexts ==
  LET d == compareServerConfigs(normalizeServerInfo(serverInfo[1]),
                                normalizeServerInfo(serverInfo[2]))
  IN {d[i].text : i \in 1..Len(d)}

\* C13: when the two descriptors hold as many tools and, after the
\* name-based sort, the tools at some position differ, the differences
\* compareServerConfigs returns hold the entry
\* 'Tool "<name>" configuration differs' naming that tool.
C13_EntryDifferenceReported ==
  (mode = "hash" /\ Length(serverInfo[1].tools) = Length(serverInfo[2].tools))
    => \A i \in 1..Length(serverInfo[1].tools) :
         ByName(serverInfo[1].tools)[i] # ByName(serverInfo[2].tools)[i]
           => ("Tool \"" \o EntryLabel(ByName(serverInfo[1].tools)[i], i, FALSE)
                 \o "\" configuration differs") \in DiffTexts

\* C13 holds of the legacy comparator, which compares the lists entry by
\* entry.
C13_LegacyEntryDifferenceReported == variant = "legacy" => C13_EntryDifferenceReported

\* The differences compareServers reported whose text speaks of the entries
\* of the list named by label ("Tool", "Resource", "Prompt", "Root").
ListEntries(label) ==
  {i \in 1..Len(cmp.differences) :
     cmp.differences[i].category \in {label, label \o "s count"}}

\* The list named by label holds different numbers of entries in the two
\* descriptors, and the differences say so once, with the two lengths, and
\* say nothing else of that list.
CountReported(label, f) ==
  /\ Cardinality(ListEntries(label)) = 1
  /\ \A i \in ListEntries(label) :
       cmp.differences[i].text =
         label \o "s count: " \o ToString(Length(serverInfo[1][f])) \o " vs "
           \o ToString(Length(serverInfo[2][f]))

C15_VerdictIsHashEquality ==
  (mode = "hash" /\ cmp.stage = "done")
    => LET hash1 == Fingerprint(serverInfo[1])
           hash2 == Fingerprint(serverInfo[2])
       IN /\ cmp.verdict = "SUCCESS" <=> hash1 = hash2
          /\ cmp.verdict = "DIFFERENCE" <=> hash1 # hash2
          /\ hash1 = hash2 => cmp.differences = <<>>

\* C15 witness: the verdict is SUCCESS and nothing is reported for two
\* descriptors that differ in protocolVersion and in roots.
C15_Witness ==
  /\ mode = "hash"
  /\ cmp.stage = "done"
  /\ cmp.verdict = "SUCCESS"
  /\ cmp.differences = <<>>
  /\ serverInfo[1].protocolVersion # serverInfo[2].protocolVersion
  /\ Length(serverInfo[1].roots) # Length(serverInfo[2].roots)

\* C16: when exactly one of the two retrieved descriptors carries an error,
\* the differences compareServerConfigs returns report the reachability
\* difference and nothing else: no identity, capability or count entry
\* that comes from the empty fields of the descriptor that failed.
C16_OnlyReachabilityReported ==
  (/\ mode = "compare"
   /\ \A c \in Clients : pc[c] = "Done"
   /\ Truthy(serverInfo[1].error) # Truthy(serverInfo[2].error))
    => LET d == compareServerConfigs(normalizeServerInfo(serverInfo[1]),
                                     normalizeServerInfo(serverInfo[2]))
       IN /\ \E i \in 1..Len(d) : d[i].category = "Server errors"
          /\ \A i \in 1..Len(d) : d[i].category = "Server errors"

\* The value is a descriptor: strings for the identity, an object for the
\* capabilities, arrays for the lists, and an error that is a non-empty
\* string when there is one.
IsDescriptor(info) ==
  /\ \A f \in {"name", "version", "protocolVersion", "endpoint"} : info[f].t = "string"
  /\ info.capabilities.t = "object"
  /\ \A f \in {"tools", "resources", "prompts", "roots"} : info[f].t = "array"
  /\ info.error.t \in {"undefined", "string"}
  /\ info.error.t = "string" => info.error.s # ""

\* C17: whatever the outcome of each call (connection refused, timeout,
\* non-success status, error object, malformed body), getServerInfo ends by
\* returning a descriptor, and that descriptor carries an error exactly
\* when the initialize call failed or returned an error object.
C17_ErrorOnlyFromInitialize ==
  (mode = "solo" /\ pc[1] = "Done")
    => /\ IsDescriptor(serverInfo[1])
       /\ Truthy(serverInfo[1].error) <=> "initialize" \in served[1].failed

\* C17 witness: a retrieval ended without error although the tools call,
\* the roots call and ping failed.
C17_Witness ==
  /\ mode = "solo"
  /\ pc[1] = "Done"
  /\ ~Truthy(serverInfo[1].error)
  /\ {"tools/list", "roots/list", "ping"} \subseteq served[1].failed
  /\ Length(serverInfo[1].resources) = 1

\* The state of client c: its fields, the requests it sent, the descriptor
\* it builds and its position.
ClientState(c) ==
  <<requestId[c], sessionId[c], initialized[c], sent[c], serverInfo[c], pc[c]>>

\* The descriptor of client c holds what c's own endpoint served to c.
OwnDescriptor(c) ==
  /\ \A f \in {"tools", "resources", "prompts", "roots"} : serverInfo[c][f] = served[c][f]
  /\ served[c].identity = <<serverInfo[c].name, serverInfo[c].version,
                            serverInfo[c].protocolVersion, serverInfo[c].capabilities>>
  /\ Truthy(serverInfo[c].error) <=> "initialize" \in served[c].failed

\* C18: two clients that run getServerInfo concurrently share no state.  In
\* every interleaving, a step in which a client's own call does not move
\* leaves that client's request counter, session token, requests and
\* descriptor as they were; each client numbers its requests 1, 2, ... as
\* it does alone, and the descriptor it returns is made of the answers of
\* its own endpoint.
C18_ClientsShareNoState ==
  /\ [](mode = "compare" =>
          \A c \in Clients :
            /\ \A k \in 1..Len(sent[c]) : sent[c][k].id = k
            /\ pc[c] = "Done" => OwnDescriptor(c))
  /\ [][mode = "compare" =>
          \A c \in Clients : net'[c] = net[c] => ClientState(c)' = ClientState(c)]_vars

\* C18 witness: both retrievals ended, the two clients having sent
\* different numbers of requests, one holding a token and the other none,
\* with different descriptors.
C18_Witness ==
  /\ mode = "compare"
  /\ \A c \in Clients : pc[c] = "Done"
  /\ requestId[1] = 7
  /\ requestId[2] = 2
  /\ Truthy(sessionId[1])
  /\ ~Truthy(sessionId[2])
  /\ Length(serverInfo[1].tools) = 2
  /\ Truthy(serverInfo[2].error)

\* C19: a listing call on a client on which initialize was never called
\* fails at once and sends nothing: no listing request is sent unless an
\* initialize request was sent before it, and while nothing was sent the
\* request counter and the session token are those of a fresh client.
C19_ListingFailsFast ==
  mode = "api" =>
    \A c \in Clients :
      /\ \A k \in 1..Len(sent[c]) :
           sent[c][k].method \in ListMethods
             => \E j \in 1..(k - 1) : sent[c][j].method = "initialize"
      /\ sent[c] = <<>> => (requestId[c] = 1 /\ sessionId[c] = JNull)

\* C19 holds of the final client, whose listing methods test the
\* initialized flag.
C19_FinalListingFailsFast == variant = "final" => C19_ListingFailsFast

\* C19, final client: a listing call has failed fast on a fresh client.
C19_FinalWitness ==
  /\ mode = "api"
  /\ variant = "final"
  /\ sent[1] = <<>>
  /\ lastRet[1].thrown

\* The methods of the requests client c sent, in the order they were sent.
SentMethods(c) == [k \in 1..Len(sent[c]) |-> sent[c][k].method]

\* C20: one getServerInfo run on a fresh client sends its requests in the
\* order initialize, tools/list, resources/list, prompts/list, roots/list,
\* ping, each at most once and one at a time (the call in flight is the
\* last request sent); when initialize succeeded, the run that ends has
\* sent exactly these six, whichever of the later calls failed.
C20_SixRequestsInOrder ==
  mode = "solo" =>
    /\ Len(sent[1]) <= Len(CallOrder)
    /\ SentMethods(1) = SubSeq(CallOrder, 1, Len(sent[1]))
    /\ net[1].stage # "none" => net[1].method = CallOrder[Len(sent[1])]
    /\ net[1].stage = "none" => pc[1] \in {"Created", "Done"}
    /\ (initOk[1] /\ pc[1] = "Done") => SentMethods(1) = CallOrder

\* C20 witness: a run whose initialize succeeded ended after six requests,
\* its tools, resources and prompts calls having failed.
C20_Witness ==
  /\ mode = "solo"
  /\ initOk[1]
  /\ pc[1] = "Done"
  /\ Len(sent[1]) = 6
  /\ {"tools/list", "resources/list", "prompts/list"} \subseteq served[1].failed

\* C21: compareServers computes the two fingerprints only after both
\* getServerInfo retrievals have ended, in every interleaving of the two
\* clients: once the hashes exist, neither client has a call in flight or
\* a call left to send, and the hashes are those of the two descriptors
\* the retrievals returned.
C21_HashesAfterBothRetrievals ==
  (mode = "compare" /\ cmp.stage = "done")
    => /\ \A c \in Clients : pc[c] = "Done" /\ net[c].stage = "none"
       /\ cmp.hash1 = Fingerprint(serverInfo[1])
       /\ cmp.hash2 = Fingerprint(serverInfo[2])

\* C21 witness: the hashes were computed after client 2 had failed on
\* initialize, its only request, and client 1 had gone through all six
\* calls and retrieved its lists.
C21_Witness ==
  /\ mode = "compare"
  /\ cmp.stage = "done"
  /\ Len(sent[2]) = 1
  /\ Truthy(serverInfo[2].error)
  /\ Len(sent[1]) = 6
  /\ Length(serverInfo[1].tools) = 2
  /\ Length(serverInfo[1].prompts) = 1

\* The payload p sent as a bare JSON body, and the bodies that send it in a
\* streaming-event frame (with or without an id line) when method is called.
BareBody(p) == <<TextLine(JSONText(p))>>

FramedBodies(p, method) ==
  {<<EventLine, DataLine(JSONText(p))>>}
  \cup {<<EventLine, IdLine(e), DataLine(JSONText(p))>> : e \in EventIds(method)}

\* The bodies a server may send for method that are neither of these.
MalformedBodies(method) ==
  Bodies(method) \ UNION {{BareBody(p)} \cup FramedBodies(p, method) : p \in Payloads(method)}

\* C22: for the call whose body a client awaits, every payload the server
\* may send makes sendRequest return that payload, whether it comes as a
\* bare JSON body or in a streaming-event frame, and every body that is
\* neither (an event frame with no data line, text that is no JSON, an
\* empty body) makes the call throw.
C22_BareAndFramedAgree ==
  \A c \in Clients :
    (mode = "api" /\ net[c].stage = "body")
      => /\ \A p \in Payloads(net[c].method) :
              /\ ParseBody(BareBody(p)) = Returned(p)
              /\ \A b \in FramedBodies(p, net[c].method) :
                   ParseBody(b) = ParseBody(BareBody(p))
         /\ \A b \in MalformedBodies(net[c].method) : ParseBody(b).thrown

\* C22 witness: the legacy client took its token from the id line of a
\* streaming-event frame, and the initialize call returned the payload the
\* frame carried.
C22_Witness ==
  /\ mode = "api"
  /\ variant = "legacy"
  /\ Len(sent[1]) = 1
  /\ net[1].stage = "none"
  /\ sessionId[1] = JStr("s1")
  /\ lastRet[1] = Returned(ResultResponse(InitializeResult))

\* C23: a descriptor one of whose tool, resource or prompt entries got a
\* field outside the declared ones gets the same digest from
\* generateServerID as before, whether the entries reach it as the server
\* sent them (legacy convertToServerInterface) or already projected.
C23_ExtraFieldsIgnored ==
  (mode = "hash" /\ edits = {"extra"})
    => /\ generateServerID(convertToServerInterfaceLegacy(serverInfo[1]))
            = generateServerID(convertToServerInterfaceLegacy(serverInfo[2]))
       /\ Fingerprint(serverInfo[1]) = Fingerprint(serverInfo[2])

\* C23 witness: compareServers found equal hashes for two descriptors
\* whose tools differ in an added annotations field.
C23_Witness ==
  /\ mode = "hash"
  /\ edits = {"extra"}
  /\ cmp.stage = "done"
  /\ cmp.hash1 = cmp.hash2
  /\ \E i \in 1..Length(serverInfo[2].tools) :
       /\ Get(serverInfo[1].tools.xs[i], "annotations") = JUndef
       /\ Get(serverInfo[2].tools.xs[i], "annotations") # JUndef

\* C24: generateServerID keeps the key order of nested objects: two
\* descriptors equal except for the key insertion order of the
\* capabilities, of a tool's inputSchema or of a prompt's arguments have
\* different canonical serializations, hence different digests, the hash
\* being injective.
C24_KeyOrderShows ==
  (mode = "hash" /\ edits = {"keyorder"})
    => LET s1 == Serialization(serverInfo[1])
           s2 == Serialization(serverInfo[2])
       IN s1 # s2 /\ Sha256Hex(s1) # Sha256Hex(s2)

\* C24 witness: compareServers found different hashes for two descriptors
\* whose tools are equal except for the key order of one inputSchema.
C24_Witness ==
  /\ mode = "hash"
  /\ edits = {"keyorder"}
  /\ cmp.stage = "done"
  /\ cmp.hash1 # cmp.hash2
  /\ serverInfo[1].capabilities = serverInfo[2].capabilities
  /\ \E i \in 1..Length(serverInfo[2].tools) :
       Get(serverInfo[2].tools.xs[i], "inputSchema")
         = ReverseKeys(Get(serverInfo[1].tools.xs[i], "inputSchema"))

\* C25: the header-based (final) client holds a session token, between
\* calls, only if one of its initialize calls completed successfully (HTTP
\* success, parseable body, no error object in the response); no token is
\* kept from an initialize call that failed.
C25_TokenOnlyFromSuccessfulInitialize ==
  \A c \in Clients :
    (mode = "api" /\ variant = "final" /\ net[c].stage = "none" /\ HoldsToken(c))
      => initOk[c]

\* C26: whenever compareServers finds the two digests different, the
\* differences compareServerConfigs returns for the two normalized
\* descriptors are not empty: every DIFFERENCE verdict comes with at least
\* one reported difference.
C26_DifferenceExplained ==
  (mode = "hash" /\ cmp.stage = "done" /\ cmp.hash1 # cmp.hash2)
    => cmp.differences # <<>>

\* C26 holds of the legacy comparator, which compares the entries of the
\* lists.
C26_LegacyDifferenceExplained == variant = "legacy" => C26_DifferenceExplained

====
